---- MODULE Spec2Model ----
(***************************************************************************)
(* Model of flink_scrat.job_manager_connector.FlinkJobmanagerConnector:   *)
(* one client instance issuing sequential calls against a remote job      *)
(* manager whose answers are chosen nondeterministically.  Every HTTP     *)
(* request and every time.sleep is one step.                              *)
(***************************************************************************)
EXTENDS Integers, Sequences, FiniteSets, TLC

VARIABLES path, calls, op, args, pc, try_num, request_id, savepoint_path,
          job_params, jar_id, requests, sleeps, result

vars == <<path, calls, op, args, pc, try_num, request_id, savepoint_path,
          job_params, jar_id, requests, sleeps, result>>

(* ---------------------------- bounds ---------------------------------- *)

\* number of sequential calls made on one client instance
MaxCalls == 2

\* length of the application list the resource manager answers with
MaxApps == 3

(* ------------------------ program constants --------------------------- *)

\* default of _await_savepoint_completion and of _await_job_termination
max_retries == 20

retry_sleep_seconds == 2

in_progess_status == "IN_PROGRESS"

running_job_status == "RUNNING"

(* --------------------------- input values ----------------------------- *)

\* Python's None; every optional value is a string, so None is one too
None == "None"

Addresses == {"localhost"}

Ports == {"8081"}

JobIds == {"job-1"}

TargetDirs == {"/savepoints"}

\* file paths are sequences of path components
JarPaths == {<<"build", "app.jar">>}

AllowNonRestoreValues == {"False"}

ParallelismValues == {"1"}

EntryClasses == {"com.acme.Main"}

ExtraArgs == {"--x 1"}

\* response.text of a non-success answer
ErrTexts == {"not found", "internal error"}

RequestIds == {"req-1"}

SavepointLocations == {"/sp/1", "/sp/2"}

StackTraces == {"boom"}

\* job states other than RUNNING that the job manager reports
OtherJobStates == {"CANCELED", "FAILED"}

\* the 'filename' field of the upload answer
StoredFileNames == {<<"tmp", "flink-web-upload", "u1_app.jar">>, <<"u2_app.jar">>}

RunResults == {"job-2"}

\* parsed JSON documents of the pass-through calls, taken as opaque
Documents == {"doc-1"}

ClusterAddresses == {"rm-host"}

ClusterPorts == {"8088"}

SessionNames == {"x"}

AppNames == {"x", "y"}

AppStates == {"RUNNING", "FINISHED"}

\* amRPCAddress values "host:port"; a string is a sequence of tokens
RpcAddresses == {<<"10.0.0.1", ":", "9000">>, <<"10.0.0.2", ":", "9001">>}

Opt(S) == S \cup {None}

(* ---------------------------- exceptions ------------------------------ *)

NoPath == <<>>

Exc(type, job_id, file, text, retries) ==
    [type |-> type, job_id |-> job_id, file |-> file, text |-> text, retries |-> retries]

NoExc == Exc("", "", NoPath, "", 0)

HTTPError(text) == Exc("HTTPError", "", NoPath, text, 0)

IOError(jar_path) == Exc("IOError", "", jar_path, "", 0)

JobIdNotFoundException(job_id, text) == Exc("JobIdNotFoundException", job_id, NoPath, text, 0)

FailedSavepointException(stack_trace) == Exc("FailedSavepointException", "", NoPath, stack_trace, 0)

SavepointMaxRetriesReachedException(retries) == Exc("MaxRetriesReachedException", "", NoPath, "", retries)

JobMaxRetriesReachedException(job_id, retries) == Exc("MaxRetriesReachedException", job_id, NoPath, "", retries)

NotValidJARException(jar_path) == Exc("NotValidJARException", "", jar_path, "", 0)

JobRunFailedException(jar, text) == Exc("JobRunFailedException", jar, NoPath, text, 0)

\* raise Exception(message.format(session_name)), lines 220 and 222
GenericException(message, session_name) == Exc("Exception", session_name, NoPath, message, 0)

\* unpacking a list that has not exactly two items, line 229
ValueError == Exc("ValueError", "", NoPath, "", 0)

(* ------------------------- results of a call -------------------------- *)

\* the rpc_info dict of _build_rpc_address_info, when there is none
NoInfo == [rpc_address |-> <<>>, rpc_port |-> <<>>]

NoResult == [kind |-> "none", value |-> None, exc |-> NoExc, info |-> NoInfo]

Return(v) == [kind |-> "return", value |-> v, exc |-> NoExc, info |-> NoInfo]

Raise(e) == [kind |-> "raise", value |-> None, exc |-> e, info |-> NoInfo]

\* return rpc_info, line 236
ReturnInfo(rpc_info) == [kind |-> "return", value |-> None, exc |-> NoExc, info |-> rpc_info]

(* ------------------------- remote answers ----------------------------- *)

\* a non-success status code with a body text
ErrorResponses == {[ok |-> FALSE, text |-> t, json |-> [null |-> TRUE]] : t \in ErrTexts}

Ok(json) == [ok |-> TRUE, text |-> "", json |-> json]

\* POST /jobs/{id}/savepoints/ : a request id, or a JSON null body
TriggerResponses ==
    ErrorResponses
    \cup {Ok([null |-> TRUE])}
    \cup {Ok([null |-> FALSE, request_id |-> r]) : r \in RequestIds}

\* GET /jobs/{id}/savepoints/{request} : status.id and operation
SavepointStatusResponses ==
    ErrorResponses
    \cup {Ok([null |-> FALSE, status_id |-> in_progess_status,
              operation |-> [failure_cause |-> None, location |-> None]])}
    \cup {Ok([null |-> FALSE, status_id |-> "COMPLETED",
              operation |-> [failure_cause |-> None, location |-> l]]) : l \in SavepointLocations}
    \cup {Ok([null |-> FALSE, status_id |-> "COMPLETED",
              operation |-> [failure_cause |-> s, location |-> None]]) : s \in StackTraces}

\* POST /jars/upload
UploadResponses ==
    ErrorResponses \cup {Ok([null |-> FALSE, filename |-> f]) : f \in StoredFileNames}

\* POST /jars/{id}/run
RunResponses ==
    ErrorResponses \cup {Ok([null |-> FALSE, value |-> r]) : r \in RunResults}

\* PATCH /jobs/{id}?mode=cancel
CancelResponses == ErrorResponses \cup {Ok([null |-> FALSE])}

\* GET /jars, DELETE /jars/{id}, GET /jobs and the direct status calls
DocumentResponses ==
    ErrorResponses \cup {Ok([null |-> FALSE, value |-> d]) : d \in Documents}

AppRecords == [state : AppStates, name : AppNames, amRPCAddress : RpcAddresses]

AppLists == UNION {[1..n -> AppRecords] : n \in 0..MaxApps}

\* GET {rm}/ws/v1/cluster/apps : result.json()['apps']['app']
AppsResponses ==
    ErrorResponses \cup {Ok([null |-> FALSE, apps |-> l]) : l \in AppLists}

\* GET /jobs/{id}
JobInfoResponses ==
    ErrorResponses
    \cup {Ok([null |-> FALSE, state |-> s]) : s \in {running_job_status} \cup OtherJobStates}

(* --------------------------- pure helpers ----------------------------- *)

\* raise_for_status() then json()
handle_response(req_response) ==
    IF req_response.ok
    THEN [raised |-> FALSE, exc |-> NoExc, json |-> req_response.json]
    ELSE [raised |-> TRUE, exc |-> HTTPError(req_response.text), json |-> req_response.json]

\* the first component instead of the last
basename_first(p) == IF Len(p) = 0 THEN "" ELSE p[1]

\* os.path.basename on a path given as its components
basename(p) == IF Len(p) = 0 THEN "" ELSE p[Len(p)]

\* an off-by-one loop bound: one iteration too many
in_range_inclusive(n, limit) == n <= limit

\* range(0, max_retries): is there another iteration after try_num
in_range(n, limit) == n < limit

\* line 40: trigger_status == in_progess_status
savepoint_in_progress(trigger_info) == trigger_info.status_id = in_progess_status

\* the location is lost on the way out
savepoint_location_dropped(savepoint_result) == None

\* line 54: savepoint_result['location']
savepoint_location(savepoint_result) == savepoint_result.location

\* the failure cause is never looked at
has_failure_cause_ignored(savepoint_result) == FALSE

\* line 48: 'failure-cause' in savepoint_result.keys()
has_failure_cause(savepoint_result) == savepoint_result.failure_cause # None

\* a FAILED job is waited for as if it were running
_is_job_running_or_failed(job_info) == job_info.state \in {"RUNNING", "FAILED"}

\* only a CANCELED job counts as terminated
_is_job_running_unless_canceled(job_info) == job_info.state # "CANCELED"

\* lines 165-169, applied to the answer of job_info
_is_job_running(job_info) == job_info.state = running_job_status

\* the raw parameters are passed on unfiltered
_build_job_params_unfiltered(raw_params) == raw_params

\* line 125
_build_job_params(raw_params) ==
    [key \in {k \in DOMAIN raw_params : raw_params[k] # None} |-> raw_params[key]]

\* the savepoint path is left out of the restore parameters
restore_params_without_savepoint(allow_non_restore, extra_args, parallelism, entry_class, path_of_savepoint) ==
    [allowNonRestoredState |-> allow_non_restore,
     programArg |-> extra_args,
     parallelism |-> parallelism,
     entryClass |-> entry_class,
     savepointPath |-> None]

\* lines 142-148: the dict given to _build_job_params
restore_params(allow_non_restore, extra_args, parallelism, entry_class, path_of_savepoint) ==
    [allowNonRestoredState |-> allow_non_restore,
     programArg |-> extra_args,
     parallelism |-> parallelism,
     entryClass |-> entry_class,
     savepointPath |-> path_of_savepoint]

\* an empty map instead of no parameters
EmptyParams == [given |-> TRUE, params |-> <<>>]

\* job_params of run_job: None (no body) or a map
NoParams == [given |-> FALSE, params |-> <<>>]

Params(m) == [given |-> TRUE, params |-> m]

\* a job id alone selects the savepoint path
is_stateful_redeploy_job_id_only(job_id, target_dir) == job_id # None

\* line 137
is_stateful_redeploy(job_id, target_dir) == job_id # None /\ target_dir # None

\* the transport error of the trigger request is not classified
trigger_savepoint_except_unclassified(e, job_id) == e

\* except HTTPError of trigger_savepoint (lines 82-83)
trigger_savepoint_except(e, job_id) ==
    IF e.type = "HTTPError" THEN JobIdNotFoundException(job_id, e.text) ELSE e

\* except HTTPError of cancel_job (lines 194-195)
cancel_job_except(e, job_id) ==
    IF e.type = "HTTPError" THEN JobIdNotFoundException(job_id, e.text) ELSE e

\* the transport error of the upload is not classified
submit_jar_except_unclassified(e, jar_path) == e

\* except HTTPError of submit_jar (lines 115-117)
submit_jar_except(e, jar_path) ==
    IF e.type = "HTTPError" THEN NotValidJARException(jar_path) ELSE e

\* except HTTPError of run_job (lines 92-94)
run_job_except(e, jar) ==
    IF e.type = "HTTPError" THEN JobRunFailedException(jar, e.text) ELSE e

\* str.split(sep) on a sequence of tokens: the pieces between separators
RECURSIVE split(_, _)
split(s, sep) ==
    IF \A i \in 1..Len(s) : s[i] # sep
    THEN <<s>>
    ELSE LET i == CHOOSE n \in 1..Len(s) : s[n] = sep /\ \A j \in 1..(n - 1) : s[j] # sep
         IN  <<SubSeq(s, 1, i - 1)>> \o split(SubSeq(s, i + 1, Len(s)), sep)

\* the session name alone selects the application
matches_session_by_name_only(x, session_name) == x.name = session_name

\* line 217: the filter of _get_running_app
matches_session(x, session_name) == x.state = "RUNNING" /\ x.name = session_name

\* _get_running_app, lines 216-226
_get_running_app(apps_info, session_name) ==
    LET running_apps == SelectSeq(apps_info, LAMBDA x : matches_session(x, session_name))
    IN  IF Len(running_apps) = 0
        THEN [raised |-> TRUE,
              exc |-> GenericException("No app found with state=<RUNNING> and name", session_name),
              apps |-> running_apps]
        ELSE IF Len(running_apps) > 1
        THEN [raised |-> TRUE,
              exc |-> GenericException("More then one app found with state=<RUNNING> and name", session_name),
              apps |-> running_apps]
        ELSE [raised |-> FALSE, exc |-> NoExc, apps |-> running_apps]

\* _build_rpc_address_info, lines 228-236
_build_rpc_address_info(running_app) ==
    LET parts == split(running_app.amRPCAddress, ":")
    IN  IF Len(parts) = 2
        THEN ReturnInfo([rpc_address |-> parts[1], rpc_port |-> parts[2]])
        ELSE Raise(ValueError)

(* --------------------------- the state -------------------------------- *)

NoArgs ==
    [jar_path |-> NoPath, target_dir |-> None, job_id |-> None, allow_non_restore |-> None,
     parallelism |-> None, entry_class |-> None, extra_args |-> None, cancel_job |-> FALSE,
     jar_id |-> None, job_params |-> NoParams, request_id |-> None,
     cluster_address |-> None, cluster_port |-> None, session_name |-> None]

\* __init__ : self.path = "http://{}:{}".format(address, port)
Init ==
    /\ \E address \in Addresses, port \in Ports : path = <<"http://", address, ":", port>>
    /\ calls = 0
    /\ op = "none"
    /\ args = NoArgs
    /\ pc = "idle"
    /\ try_num = 0
    /\ request_id = None
    /\ savepoint_path = None
    /\ job_params = NoParams
    /\ jar_id = None
    /\ requests = <<>>
    /\ sleeps = 0
    /\ result = NoResult

\* a request sent to self.path, with the answer it got
Request(kind, payload, resp) ==
    [kind |-> kind, endpoint |-> path, payload |-> payload, resp |-> resp]

CanCall == pc \in {"idle", "done"} /\ calls < MaxCalls

\* entering a public method: the per-call locals start fresh
Enter(name, a, start) ==
    /\ CanCall
    /\ calls' = calls + 1
    /\ op' = name
    /\ args' = a
    /\ pc' = start
    /\ try_num' = 0
    /\ request_id' = None
    /\ savepoint_path' = None
    /\ job_params' = NoParams
    /\ jar_id' = None
    /\ requests' = <<>>
    /\ sleeps' = 0
    /\ result' = NoResult

\* the call returns or raises to its caller
Finish(r) == pc' = "done" /\ result' = r

(* ---------------------------- calls ----------------------------------- *)

\* submit_job, lines 127-137: branch on job_id and target_dir
Call_submit_job ==
    /\ UNCHANGED path
    /\ \E jp \in JarPaths, td \in Opt(TargetDirs), ji \in Opt(JobIds),
       anr \in Opt(AllowNonRestoreValues), par \in Opt(ParallelismValues),
       ec \in Opt(EntryClasses), ea \in Opt(ExtraArgs) :
        Enter("submit_job",
              [NoArgs EXCEPT !.jar_path = jp, !.target_dir = td, !.job_id = ji,
                             !.allow_non_restore = anr, !.parallelism = par,
                             !.entry_class = ec, !.extra_args = ea, !.cancel_job = TRUE],
              IF is_stateful_redeploy(ji, td) THEN "trigger" ELSE "upload")

\* cancel_job_with_savepoint, lines 62-63
Call_cancel_job_with_savepoint ==
    /\ UNCHANGED path
    /\ \E ji \in JobIds, td \in TargetDirs :
        Enter("cancel_job_with_savepoint",
              [NoArgs EXCEPT !.job_id = ji, !.target_dir = td, !.cancel_job = TRUE],
              "trigger")

\* trigger_savepoint called directly, lines 65-72
Call_trigger_savepoint ==
    /\ UNCHANGED path
    /\ \E ji \in JobIds, td \in TargetDirs, cj \in BOOLEAN :
        Enter("trigger_savepoint",
              [NoArgs EXCEPT !.job_id = ji, !.target_dir = td, !.cancel_job = cj],
              "trigger")

\* cancel_job, lines 185-189
Call_cancel_job ==
    /\ UNCHANGED path
    /\ \E ji \in JobIds :
        Enter("cancel_job", [NoArgs EXCEPT !.job_id = ji], "cancel")

\* submit_jar called directly
Call_submit_jar ==
    /\ UNCHANGED path
    /\ \E jp \in JarPaths :
        Enter("submit_jar", [NoArgs EXCEPT !.jar_path = jp], "upload")

\* run_job called directly, lines 85-87
Call_run_job ==
    /\ UNCHANGED path
    /\ \E f \in StoredFileNames, jpm \in {NoParams, Params([parallelism |-> "1"])} :
        Enter("run_job", [NoArgs EXCEPT !.jar_id = basename(f), !.job_params = jpm], "run")

\* list_jars, lines 22-23
Call_list_jars ==
    /\ UNCHANGED path
    /\ Enter("list_jars", NoArgs, "pass_through")

\* delete_jar, lines 28-29
Call_delete_jar ==
    /\ UNCHANGED path
    /\ \E f \in StoredFileNames :
        Enter("delete_jar", [NoArgs EXCEPT !.jar_id = basename(f)], "pass_through")

\* list_jobs, lines 159-160
Call_list_jobs ==
    /\ UNCHANGED path
    /\ Enter("list_jobs", NoArgs, "pass_through")

\* job_info called directly, lines 119-120
Call_job_info ==
    /\ UNCHANGED path
    /\ \E ji \in JobIds :
        Enter("job_info", [NoArgs EXCEPT !.job_id = ji], "pass_through")

\* savepoint_trigger_info called directly, lines 96-98
Call_savepoint_trigger_info ==
    /\ UNCHANGED path
    /\ \E ji \in JobIds, ri \in RequestIds :
        Enter("savepoint_trigger_info",
              [NoArgs EXCEPT !.job_id = ji, !.request_id = ri], "pass_through")

\* _find_address, lines 197-198
Call__find_address ==
    /\ UNCHANGED path
    /\ \E ca \in ClusterAddresses, cp \in ClusterPorts, sn \in SessionNames :
        Enter("_find_address",
              [NoArgs EXCEPT !.cluster_address = ca, !.cluster_port = cp, !.session_name = sn],
              "apps")

(* ------------------------ pass-through calls -------------------------- *)

\* return self.handle_response(requests.<method>(route)) of list_jars,
\* delete_jar, list_jobs, job_info and savepoint_trigger_info
PassThroughRequest ==
    /\ pc = "pass_through"
    /\ \E resp \in DocumentResponses :
        LET response == handle_response(resp)
        IN  /\ requests' = Append(requests,
                    Request("pass_through",
                            [method |-> op, jar_id |-> args.jar_id, job_id |-> args.job_id,
                             request_id |-> args.request_id], resp))
            /\ IF response.raised
               THEN Finish(Raise(response.exc))
               ELSE Finish(Return(response.json.value))
    /\ UNCHANGED <<path, calls, op, args, try_num, request_id, savepoint_path,
                   job_params, jar_id, sleeps>>

(* ------------------------- session discovery -------------------------- *)

\* the address found is kept as the client's own endpoint
GetAppsInfo_rebinds_path ==
    /\ pc = "apps"
    /\ \E resp \in AppsResponses :
        LET route == <<"http://", args.cluster_address, ":", args.cluster_port>>
            running_app == _get_running_app(resp.json.apps, args.session_name)
        IN  /\ requests' = Append(requests,
                    [kind |-> "apps", endpoint |-> route, payload |-> <<>>, resp |-> resp])
            /\ IF ~resp.ok
               THEN Finish(Raise(HTTPError(resp.text))) /\ UNCHANGED path
               ELSE IF running_app.raised
               THEN Finish(Raise(running_app.exc)) /\ UNCHANGED path
               ELSE /\ Finish(_build_rpc_address_info(running_app.apps[1]))
                    /\ path' = <<"http://">> \o running_app.apps[1].amRPCAddress
    /\ UNCHANGED <<calls, op, args, try_num, request_id, savepoint_path,
                   job_params, jar_id, sleeps>>

\* _find_address, lines 197-204, with _get_apps_info, lines 206-214: the GET
\* to the resource manager and the handling of its answer
GetAppsInfo ==
    /\ pc = "apps"
    /\ \E resp \in AppsResponses :
        LET route == <<"http://", args.cluster_address, ":", args.cluster_port>>
            running_app == _get_running_app(resp.json.apps, args.session_name)
        IN  /\ requests' = Append(requests,
                    [kind |-> "apps", endpoint |-> route, payload |-> <<>>, resp |-> resp])
            /\ IF ~resp.ok
               THEN Finish(Raise(HTTPError(resp.text)))
               ELSE IF running_app.raised
               THEN Finish(Raise(running_app.exc))
               ELSE Finish(_build_rpc_address_info(running_app.apps[1]))
    /\ UNCHANGED <<path, calls, op, args, try_num, request_id, savepoint_path,
                   job_params, jar_id, sleeps>>

(* ------------------- savepoint trigger and wait ----------------------- *)

\* what the caller of trigger_savepoint does with its return value v
\* (submit_job lines 139-153; the other callers return it)
TriggerSavepointReturns(v) ==
    IF op = "submit_job"
    THEN /\ savepoint_path' = v
         /\ IF v # None
            THEN /\ job_params' = Params(_build_job_params(
                        restore_params(args.allow_non_restore, args.extra_args,
                                       args.parallelism, args.entry_class, v)))
                 /\ pc' = "upload"
                 /\ UNCHANGED result
            ELSE /\ Finish(Return(None))
                 /\ UNCHANGED job_params
    ELSE /\ Finish(Return(v))
         /\ UNCHANGED <<savepoint_path, job_params>>

\* an exception e raised inside the try block of trigger_savepoint
TriggerSavepointRaises(e) ==
    /\ Finish(Raise(trigger_savepoint_except(e, args.job_id)))
    /\ UNCHANGED <<savepoint_path, job_params>>

\* trigger_savepoint, lines 67-83: the POST and the handling of its answer
TriggerRequest ==
    /\ pc = "trigger"
    /\ \E resp \in TriggerResponses :
        LET body == [target_directory |-> args.target_dir, cancel_job |-> args.cancel_job,
                     job_id |-> args.job_id]
            response == handle_response(resp)
        IN  /\ requests' = Append(requests, Request("trigger", body, resp))
            /\ IF response.raised
               THEN /\ TriggerSavepointRaises(response.exc)
                    /\ UNCHANGED request_id
               ELSE IF ~response.json.null
               THEN /\ request_id' = response.json.request_id
                    /\ IF in_range(0, max_retries)
                       THEN /\ pc' = "savepoint_status"
                            /\ UNCHANGED <<result, savepoint_path, job_params>>
                       ELSE TriggerSavepointRaises(SavepointMaxRetriesReachedException(max_retries))
               ELSE /\ TriggerSavepointReturns(None)
                    /\ UNCHANGED request_id
    /\ UNCHANGED <<path, calls, op, args, try_num, jar_id, sleeps>>

\* _await_savepoint_completion, lines 37-56: one status call and its handling
SavepointStatus ==
    /\ pc = "savepoint_status"
    /\ \E resp \in SavepointStatusResponses :
        LET trigger_info == handle_response(resp)
        IN  /\ requests' = Append(requests,
                    Request("savepoint_status",
                            [job_id |-> args.job_id, request_id |-> request_id], resp))
            /\ IF trigger_info.raised
               THEN TriggerSavepointRaises(trigger_info.exc)
               ELSE IF savepoint_in_progress(trigger_info.json)
               THEN /\ pc' = "savepoint_sleep"
                    /\ UNCHANGED <<result, savepoint_path, job_params>>
               ELSE IF has_failure_cause(trigger_info.json.operation)
               THEN TriggerSavepointRaises(
                        FailedSavepointException(trigger_info.json.operation.failure_cause))
               ELSE TriggerSavepointReturns(savepoint_location(trigger_info.json.operation))
    /\ UNCHANGED <<path, calls, op, args, try_num, request_id, jar_id, sleeps>>

\* after the sleep the savepoint is triggered again
SavepointSleep_retriggers ==
    /\ pc = "savepoint_sleep"
    /\ sleeps' = sleeps + 1
    /\ try_num' = try_num + 1
    /\ IF in_range(try_num + 1, max_retries)
       THEN /\ pc' = "trigger"
            /\ UNCHANGED <<result, savepoint_path, job_params>>
       ELSE TriggerSavepointRaises(SavepointMaxRetriesReachedException(max_retries))
    /\ UNCHANGED <<path, calls, op, args, request_id, jar_id, requests>>

\* lines 44-45 and 58-60: time.sleep, continue, and the end of the loop
SavepointSleep ==
    /\ pc = "savepoint_sleep"
    /\ sleeps' = sleeps + 1
    /\ try_num' = try_num + 1
    /\ IF in_range(try_num + 1, max_retries)
       THEN /\ pc' = "savepoint_status"
            /\ UNCHANGED <<result, savepoint_path, job_params>>
       ELSE TriggerSavepointRaises(SavepointMaxRetriesReachedException(max_retries))
    /\ UNCHANGED <<path, calls, op, args, request_id, jar_id, requests>>

(* ------------------------- upload and run ----------------------------- *)

\* submit_jar, lines 102-117; open() may fail before any request is sent
Upload ==
    /\ pc = "upload"
    /\ \/ /\ Finish(Raise(IOError(args.jar_path)))
          /\ UNCHANGED <<jar_id, requests>>
       \/ \E resp \in UploadResponses :
            LET jar_name == basename(args.jar_path)
                response == handle_response(resp)
            IN  /\ requests' = Append(requests, Request("upload", [files |-> jar_name], resp))
                /\ IF response.raised
                   THEN /\ Finish(Raise(submit_jar_except(response.exc, args.jar_path)))
                        /\ UNCHANGED jar_id
                   ELSE /\ jar_id' = basename(response.json.filename)
                        /\ IF op = "submit_job"
                           THEN pc' = "run" /\ UNCHANGED result
                           ELSE Finish(Return(basename(response.json.filename)))
    /\ UNCHANGED <<path, calls, op, args, try_num, request_id, savepoint_path,
                   job_params, sleeps>>

\* run_job, lines 85-94
Run ==
    /\ pc = "run"
    /\ \E resp \in RunResponses :
        LET jid == IF op = "run_job" THEN args.jar_id ELSE jar_id
            jpm == IF op = "run_job" THEN args.job_params ELSE job_params
            response == handle_response(resp)
        IN  /\ requests' = Append(requests,
                    Request("run", [jar_id |-> jid, json |-> jpm], resp))
            /\ IF response.raised
               THEN Finish(Raise(run_job_except(response.exc, jid)))
               ELSE Finish(Return(response.json.value))
    /\ UNCHANGED <<path, calls, op, args, try_num, request_id, savepoint_path,
                   job_params, jar_id, sleeps>>

(* --------------------- cancel and termination wait -------------------- *)

\* cancel_job, lines 188-195: the PATCH and the handling of its answer
CancelRequest ==
    /\ pc = "cancel"
    /\ \E resp \in CancelResponses :
        LET response == handle_response(resp)
        IN  /\ requests' = Append(requests,
                    Request("cancel", [job_id |-> args.job_id, mode |-> "cancel"], resp))
            /\ IF response.raised
               THEN Finish(Raise(cancel_job_except(response.exc, args.job_id)))
               ELSE IF in_range(0, max_retries)
               THEN pc' = "job_info" /\ UNCHANGED result
               ELSE Finish(Raise(cancel_job_except(
                        JobMaxRetriesReachedException(args.job_id, max_retries), args.job_id)))
    /\ UNCHANGED <<path, calls, op, args, try_num, request_id, savepoint_path,
                   job_params, jar_id, sleeps>>

\* _await_job_termination, lines 172-179: one job_info call and its handling
JobInfo ==
    /\ pc = "job_info"
    /\ \E resp \in JobInfoResponses :
        LET job_info == handle_response(resp)
        IN  /\ requests' = Append(requests,
                    Request("job_info", [job_id |-> args.job_id], resp))
            /\ IF job_info.raised
               THEN Finish(Raise(cancel_job_except(job_info.exc, args.job_id)))
               ELSE IF _is_job_running(job_info.json)
               THEN pc' = "job_sleep" /\ UNCHANGED result
               ELSE Finish(Return("True"))
    /\ UNCHANGED <<path, calls, op, args, try_num, request_id, savepoint_path,
                   job_params, jar_id, sleeps>>

\* lines 176 and 181-183: time.sleep and the end of the loop
JobSleep ==
    /\ pc = "job_sleep"
    /\ sleeps' = sleeps + 1
    /\ try_num' = try_num + 1
    /\ IF in_range(try_num + 1, max_retries)
       THEN pc' = "job_info" /\ UNCHANGED result
       ELSE Finish(Raise(cancel_job_except(
                JobMaxRetriesReachedException(args.job_id, max_retries), args.job_id)))
    /\ UNCHANGED <<path, calls, op, args, request_id, savepoint_path, job_params,
                   jar_id, requests>>

(* ------------------------- observations ------------------------------- *)

\* the requests of one kind, in the order they were sent
RequestsOfKind(k) == SelectSeq(requests, LAMBDA r : r.kind = k)

CountOfKind(k) == Len(RequestsOfKind(k))

StatusKinds == {"savepoint_status", "job_info"}

\* the status answer says: not yet
IsPending(r) ==
    /\ r.resp.ok
    /\ IF r.kind = "savepoint_status"
       THEN r.resp.json.status_id = "IN_PROGRESS"
       ELSE r.resp.json.state = "RUNNING"

\* the status answer says: done, with a value
IsDone(r) ==
    /\ r.resp.ok
    /\ ~IsPending(r)
    /\ r.kind = "savepoint_status" => r.resp.json.operation.failure_cause = None

DoneValue(r) ==
    IF r.kind = "savepoint_status" THEN r.resp.json.operation.location ELSE "True"

\* the number of pending answers before the first answer that is not pending
LeadingPending(s) ==
    CHOOSE k \in 0..Len(s) :
        /\ \A i \in 1..k : IsPending(s[i])
        /\ k = Len(s) \/ ~IsPending(s[k + 1])

\* the wait of this call has returned v to the method that called it
WaitReturned(v) ==
    IF op = "submit_job"
    THEN savepoint_path = v /\ pc \in {"upload", "run", "done"}
    ELSE pc = "done" /\ result = Return(v)

Stateful == args.job_id # None /\ args.target_dir # None

LastRequest == requests[Len(requests)]

(* ----------------------------- claims --------------------------------- *)

\* C1: a submit_job call with job_id and target_dir both supplied sends a
\* savepoint trigger with cancel-job=true for that job before any upload or
\* run request; every other submit_job call sends no savepoint request at
\* all and goes straight to upload, then run.
C1_SavepointIffBothSupplied ==
    op = "submit_job" =>
        /\ Stateful =>
            /\ pc # "upload" \/ requests # <<>>
            /\ requests # <<>> =>
                /\ requests[1].kind = "trigger"
                /\ requests[1].payload.cancel_job = TRUE
                /\ requests[1].payload.job_id = args.job_id
                /\ requests[1].payload.target_directory = args.target_dir
        /\ ~Stateful =>
            /\ pc \in {"upload", "run", "done"}
            /\ CountOfKind("trigger") = 0
            /\ CountOfKind("savepoint_status") = 0
            /\ Len(requests) <= 2
            /\ Len(requests) >= 1 => requests[1].kind = "upload"
            /\ Len(requests) >= 2 => requests[2].kind = "run"

C1_Witness ==
    /\ op = "submit_job" /\ Stateful /\ pc = "done"
    /\ Len(requests) >= 4
    /\ requests[1].kind = "trigger"
    /\ LastRequest.kind = "run"

\* C2: in a stateful redeploy the parameter map sent with the run request
\* has exactly the keys whose source value is not None, each with its
\* source value.
C2_Source ==
    [allowNonRestoredState |-> args.allow_non_restore,
     programArg |-> args.extra_args,
     parallelism |-> args.parallelism,
     entryClass |-> args.entry_class,
     savepointPath |-> savepoint_path]

C2_NoUnsetKeyInJobParams ==
    (op = "submit_job" /\ Stateful) =>
        \A i \in 1..Len(requests) :
            requests[i].kind = "run" =>
                LET sent == requests[i].payload.json
                IN  /\ sent.given
                    /\ DOMAIN sent.params = {k \in DOMAIN C2_Source : C2_Source[k] # None}
                    /\ \A k \in DOMAIN sent.params : sent.params[k] = C2_Source[k]

C2_Witness ==
    /\ op = "submit_job" /\ Stateful
    /\ requests # <<>> /\ LastRequest.kind = "run"
    /\ args.parallelism # None /\ args.entry_class = None
    /\ DOMAIN LastRequest.payload.json.params =
           {"allowNonRestoredState", "parallelism", "savepointPath"}

\* C3: for both polling loops and every k < max_retries: when the first k
\* status answers are pending and answer k+1 is done with value V, the wait
\* returns V after exactly k+1 status calls and exactly k sleeps.
C3_PendingThenDoneReturnsValue ==
    \A kind \in StatusKinds :
        LET s == RequestsOfKind(kind)
            k == LeadingPending(s)
        IN  (k < max_retries /\ k < Len(s) /\ IsDone(s[k + 1])) =>
                /\ Len(s) = k + 1
                /\ sleeps = k
                /\ WaitReturned(DoneValue(s[k + 1]))

C3_Witness ==
    /\ op = "cancel_job_with_savepoint" /\ pc = "done"
    /\ CountOfKind("savepoint_status") = 3
    /\ LeadingPending(RequestsOfKind("savepoint_status")) = 2
    /\ sleeps = 2
    /\ result = Return("/sp/1")

\* C4: for both polling loops, when every status answer is pending the wait
\* makes exactly max_retries status calls and fails with
\* MaxRetriesReachedException, and no sleep follows the last attempt (so it
\* has slept max_retries - 1 times).
C4_ExhaustedWithoutTrailingSleep ==
    \A kind \in StatusKinds :
        LET s == RequestsOfKind(kind)
        IN  (pc = "done" /\ Len(s) >= 1 /\ \A i \in 1..Len(s) : IsPending(s[i])) =>
                /\ Len(s) = max_retries
                /\ result.kind = "raise"
                /\ result.exc.type = "MaxRetriesReachedException"
                /\ sleeps = max_retries - 1

\* C5: in the savepoint wait the first status that is not IN_PROGRESS ends
\* the polling: with a failure cause the wait raises FailedSavepointException
\* carrying the stack trace, otherwise it returns the location; no status
\* call and no sleep follows that answer.
C5_FirstTerminalStatusEndsPolling ==
    LET s == RequestsOfKind("savepoint_status")
    IN  \A i \in 1..Len(s) :
            (s[i].resp.ok /\ s[i].resp.json.status_id # "IN_PROGRESS") =>
                LET operation == s[i].resp.json.operation
                IN  /\ Len(s) = i
                    /\ sleeps = i - 1
                    /\ operation.failure_cause # None =>
                          /\ pc = "done"
                          /\ result = Raise(FailedSavepointException(operation.failure_cause))
                    /\ operation.failure_cause = None =>
                          WaitReturned(operation.location)

C5_Witness ==
    /\ op = "submit_job" /\ pc = "done"
    /\ CountOfKind("savepoint_status") = 1
    /\ LastRequest.kind = "savepoint_status"
    /\ sleeps = 0
    /\ result = Raise(FailedSavepointException("boom"))

\* C6: a transport failure of the savepoint-status call made while waiting
\* inside trigger_savepoint / cancel_job_with_savepoint / submit_job reaches
\* the caller as the raw transport error, not as JobIdNotFoundException.
C6_StatusTransportErrorPropagatesRaw ==
    (/\ pc = "done"
     /\ op \in {"trigger_savepoint", "cancel_job_with_savepoint", "submit_job"}
     /\ requests # <<>>
     /\ LastRequest.kind = "savepoint_status"
     /\ ~LastRequest.resp.ok) =>
        result = Raise(HTTPError(LastRequest.resp.text))

\* C7: a transport failure of the job-info call made while cancel_job waits
\* for termination reaches the caller as the raw transport error, not as
\* JobIdNotFoundException.
C7_JobInfoTransportErrorPropagatesRaw ==
    (/\ pc = "done"
     /\ op = "cancel_job"
     /\ requests # <<>>
     /\ LastRequest.kind = "job_info"
     /\ ~LastRequest.resp.ok) =>
        result = Raise(HTTPError(LastRequest.resp.text))

\* C8: cancel_job sends the cancel request first and polls the job state
\* only after it succeeded: a rejected cancel request gives
\* JobIdNotFoundException with no job-info call; RUNNING on all max_retries
\* checks gives MaxRetriesReachedException; a check that sees another state
\* makes the call return True.
C8_CancelThenAwaitTermination ==
    op = "cancel_job" =>
        LET s == RequestsOfKind("job_info")
        IN  /\ requests # <<>> => requests[1].kind = "cancel"
            /\ CountOfKind("cancel") <= 1
            /\ Len(s) >= 1 => requests[1].resp.ok
            /\ Len(s) <= max_retries
            /\ (requests # <<>> /\ ~requests[1].resp.ok) =>
                  /\ pc = "done"
                  /\ Len(s) = 0
                  /\ result = Raise(JobIdNotFoundException(args.job_id, requests[1].resp.text))
            /\ (pc = "done" /\ Len(s) >= 1 /\ \A i \in 1..Len(s) : IsPending(s[i])) =>
                  /\ Len(s) = max_retries
                  /\ result = Raise(JobMaxRetriesReachedException(args.job_id, max_retries))
            /\ (\E i \in 1..Len(s) : s[i].resp.ok /\ s[i].resp.json.state # "RUNNING") =>
                  /\ pc = "done"
                  /\ result = Return("True")

C8_Witness ==
    /\ op = "cancel_job" /\ pc = "done"
    /\ CountOfKind("job_info") = max_retries
    /\ result = Raise(JobMaxRetriesReachedException(args.job_id, max_retries))

\* C9: a stateful-redeploy submit_job call never completes normally without
\* a run request: when it returns, it returns the answer of the run request.
C9_StatefulReturnImpliesRun ==
    (op = "submit_job" /\ Stateful /\ pc = "done" /\ result.kind = "return") =>
        /\ LastRequest.kind = "run"
        /\ LastRequest.resp.ok
        /\ result.value = LastRequest.resp.json.value

\* C10: whenever the upload request gets a non-success status the call
\* fails with NotValidJARException naming the original file path, and no
\* jar id is produced.
C10_RejectedUploadIsInvalidJar ==
    \A i \in 1..Len(requests) :
        (requests[i].kind = "upload" /\ ~requests[i].resp.ok) =>
            /\ pc = "done"
            /\ i = Len(requests)
            /\ result = Raise(NotValidJARException(args.jar_path))
            /\ jar_id = None

C10_Witness ==
    /\ op = "submit_jar" /\ pc = "done"
    /\ requests # <<>> /\ LastRequest.kind = "upload" /\ ~LastRequest.resp.ok
    /\ result.exc.type = "NotValidJARException"
    /\ result.exc.file = <<"build", "app.jar">>

C12_Matching(l) ==
    {i \in 1..Len(l) : l[i].state = "RUNNING" /\ l[i].name = args.session_name}

\* the host and the port of the one matching record, as the call returns them
C12_Expected(l) ==
    LET i == CHOOSE n \in C12_Matching(l) : TRUE
    IN  ReturnInfo([rpc_address |-> <<l[i].amRPCAddress[1]>>,
                    rpc_port |-> <<l[i].amRPCAddress[3]>>])

\* C12 (as stated): with exactly one RUNNING record of the session name,
\* discovery returns its RPC address split at ':'; with none it fails with
\* SessionNotFound and with two or more with AmbiguousSession, two distinct
\* error kinds.
C12_DistinctDiscoveryErrors ==
    (op = "_find_address" /\ pc = "done" /\ LastRequest.resp.ok) =>
        LET l == LastRequest.resp.json.apps
            n == Cardinality(C12_Matching(l))
        IN  /\ n = 1 => result = C12_Expected(l)
            /\ n = 0 => (result.kind = "raise" /\ result.exc.type = "SessionNotFound")
            /\ n >= 2 => (result.kind = "raise" /\ result.exc.type = "AmbiguousSession")

\* C12 (amended): with exactly one RUNNING record of the session name,
\* discovery returns its RPC address split at ':' into host and port; with
\* none and with two or more it fails with the same generic Exception, the
\* two cases differing only in the message; records in other states or with
\* other names never affect the outcome.
C12_DiscoveryOutcome ==
    (op = "_find_address" /\ pc = "done" /\ LastRequest.resp.ok) =>
        LET l == LastRequest.resp.json.apps
            n == Cardinality(C12_Matching(l))
        IN  /\ n = 1 => result = C12_Expected(l)
            /\ n = 0 =>
                  result = Raise(GenericException(
                      "No app found with state=<RUNNING> and name", args.session_name))
            /\ n >= 2 =>
                  result = Raise(GenericException(
                      "More then one app found with state=<RUNNING> and name", args.session_name))

C12_Witness ==
    /\ op = "_find_address" /\ pc = "done" /\ LastRequest.resp.ok
    /\ Len(LastRequest.resp.json.apps) = 3
    /\ Cardinality(C12_Matching(LastRequest.resp.json.apps)) = 1
    /\ result.info = [rpc_address |-> <<"10.0.0.1">>, rpc_port |-> <<"9000">>]

\* C13: in submit_job a failure at any step aborts the remaining steps: a
\* rejected trigger (JobIdNotFoundException), a failed savepoint
\* (FailedSavepointException) or an exhausted savepoint wait
\* (MaxRetriesReachedException) is followed by no upload and no run request,
\* a rejected upload (NotValidJARException) by no run request, and the
\* error reaches the caller.
C13_FailureAbortsRemainingSteps ==
    op = "submit_job" =>
        LET s == RequestsOfKind("savepoint_status")
            noUploadNoRun == CountOfKind("upload") = 0 /\ CountOfKind("run") = 0
        IN  /\ (Stateful /\ requests # <<>> /\ ~requests[1].resp.ok) =>
                  /\ pc = "done"
                  /\ result = Raise(JobIdNotFoundException(args.job_id, requests[1].resp.text))
                  /\ Len(requests) = 1
            /\ \A i \in 1..Len(s) :
                  (s[i].resp.ok /\ s[i].resp.json.operation.failure_cause # None) =>
                      /\ pc = "done"
                      /\ result = Raise(FailedSavepointException(
                                            s[i].resp.json.operation.failure_cause))
                      /\ noUploadNoRun
            /\ (pc = "done" /\ Len(s) >= 1 /\ \A i \in 1..Len(s) : IsPending(s[i])) =>
                  /\ result = Raise(SavepointMaxRetriesReachedException(max_retries))
                  /\ noUploadNoRun
            /\ \A i \in 1..Len(requests) :
                  (requests[i].kind = "upload" /\ ~requests[i].resp.ok) =>
                      /\ pc = "done"
                      /\ result = Raise(NotValidJARException(args.jar_path))
                      /\ CountOfKind("run") = 0

C13_Witness ==
    /\ op = "submit_job" /\ Stateful /\ pc = "done"
    /\ Len(requests) = 1
    /\ ~requests[1].resp.ok
    /\ result.exc.type = "JobIdNotFoundException"

\* C14: the job-termination wait returns True on the first check whose job
\* state is not RUNNING, whatever that state is, and makes no job-info call
\* after it; every earlier check saw RUNNING.
C14_AnyOtherStateEndsTheWait ==
    op = "cancel_job" =>
        LET s == RequestsOfKind("job_info")
        IN  /\ \A i \in 1..Len(s) :
                  (s[i].resp.ok /\ s[i].resp.json.state # "RUNNING") =>
                      /\ Len(s) = i
                      /\ pc = "done"
                      /\ result = Return("True")
                      /\ sleeps = i - 1
            /\ \A i \in 1..(Len(s) - 1) :
                  s[i].resp.ok /\ s[i].resp.json.state = "RUNNING"

C14_Witness ==
    /\ op = "cancel_job" /\ pc = "done"
    /\ CountOfKind("job_info") = 2
    /\ LastRequest.resp.ok
    /\ LastRequest.resp.json.state = "FAILED"
    /\ result = Return("True")

\* C15: in a stateful redeploy that reaches the run step, savepointPath in
\* the run request is the location of the completed savepoint status of the
\* same call, and that status answer precedes the run request.
C15_RunRestoresFromThisSavepoint ==
    (op = "submit_job" /\ Stateful) =>
        \A i \in 1..Len(requests) :
            requests[i].kind = "run" =>
                \E j \in 1..(i - 1) :
                    /\ requests[j].kind = "savepoint_status"
                    /\ requests[j].resp.ok
                    /\ requests[j].resp.json.status_id # "IN_PROGRESS"
                    /\ requests[j].resp.json.operation.failure_cause = None
                    /\ \A m \in 1..Len(requests) :
                          (requests[m].kind = "savepoint_status") => m <= j
                    /\ "savepointPath" \in DOMAIN requests[i].payload.json.params
                    /\ requests[i].payload.json.params["savepointPath"] =
                           requests[j].resp.json.operation.location

C15_Witness ==
    /\ op = "submit_job" /\ Stateful /\ pc = "done"
    /\ LastRequest.kind = "run"
    /\ CountOfKind("savepoint_status") = 2
    /\ LastRequest.payload.json.params["savepointPath"] = "/sp/2"

\* C16: in both submit_job paths the jar id of the run request is the base
\* name of the file name the upload of the same call answered with, and the
\* run request directly follows that successful upload.
C16_RunUsesUploadedJarId ==
    op = "submit_job" =>
        \A i \in 1..Len(requests) :
            requests[i].kind = "run" =>
                /\ i >= 2
                /\ requests[i - 1].kind = "upload"
                /\ requests[i - 1].resp.ok
                /\ LET filename == requests[i - 1].resp.json.filename
                   IN  requests[i].payload.jar_id = filename[Len(filename)]

C16_Witness ==
    /\ op = "submit_job" /\ ~Stateful /\ pc = "done"
    /\ Len(requests) = 2
    /\ requests[1].resp.json.filename = <<"tmp", "flink-web-upload", "u1_app.jar">>
    /\ requests[2].payload.jar_id = "u1_app.jar"

\* a call is under way
C17_Busy == pc \notin {"idle", "done"}

C17_RequestBudget ==
    /\ CountOfKind("savepoint_status") <= max_retries
    /\ CountOfKind("job_info") <= max_retries
    /\ sleeps <= max_retries
    /\ op = "submit_job" =>
        /\ CountOfKind("trigger") <= 1
        /\ CountOfKind("upload") <= 1
        /\ CountOfKind("run") <= 1
        /\ Len(requests) <= max_retries + 3

\* C17: every call terminates whatever the remote answers: a poll makes at
\* most max_retries status calls, a submit_job call at most one trigger,
\* max_retries savepoint-status, one upload and one run request, and a call
\* that is under way always reaches its return or raise.
C17_EveryCallTerminates ==
    /\ []C17_RequestBudget
    /\ C17_Busy ~> (pc = "done")

C17_Witness ==
    /\ op = "submit_job" /\ pc = "done"
    /\ CountOfKind("savepoint_status") = max_retries
    /\ result.exc.type = "MaxRetriesReachedException"

\* C18: only status polling is repeated: within one submit_job or
\* cancel_job_with_savepoint call the trigger, upload and run requests are
\* each sent at most once, and within one cancel_job call the cancel request
\* is sent at most once.
C18_OnlyPollingRepeats ==
    /\ op \in {"submit_job", "cancel_job_with_savepoint"} =>
        /\ CountOfKind("trigger") <= 1
        /\ CountOfKind("upload") <= 1
        /\ CountOfKind("run") <= 1
    /\ op = "cancel_job" => CountOfKind("cancel") <= 1

C18_Witness ==
    /\ op = "submit_job" /\ pc = "done"
    /\ CountOfKind("savepoint_status") = 4
    /\ CountOfKind("trigger") = 1
    /\ CountOfKind("upload") = 1
    /\ CountOfKind("run") = 1

\* C19: in a fresh deploy the run request carries no parameter bag at all,
\* whatever parallelism, entry_class, extra_args and allow_non_restore the
\* caller supplied, and no savepointPath.
C19_FreshDeploySendsNoParams ==
    (op = "submit_job" /\ ~Stateful) =>
        \A i \in 1..Len(requests) :
            requests[i].kind = "run" =>
                /\ ~requests[i].payload.json.given
                /\ DOMAIN requests[i].payload.json.params = {}

C19_Witness ==
    /\ op = "submit_job" /\ ~Stateful /\ pc = "done"
    /\ args.parallelism # None /\ args.entry_class # None
    /\ args.extra_args # None /\ args.allow_non_restore # None
    /\ args.job_id # None
    /\ requests # <<>>
    /\ LastRequest.kind = "run"
    /\ ~LastRequest.payload.json.given

\* the job-manager requests of the current call all went to self.path
C20_RequestsTargetEndpoint ==
    \A i \in 1..Len(requests) :
        requests[i].kind # "apps" => requests[i].endpoint = path

\* C20: no operation, successful or failed, changes the client's endpoint,
\* every job-manager request goes to it, and nothing else is carried from
\* one call into the next: a new call starts with fresh locals.
C20_EndpointIsImmutable ==
    /\ [][path' = path]_vars
    /\ []C20_RequestsTargetEndpoint
    /\ [][calls' # calls =>
            /\ requests' = <<>> /\ sleeps' = 0 /\ try_num' = 0
            /\ request_id' = None /\ savepoint_path' = None
            /\ jar_id' = None /\ job_params.given' = FALSE
            /\ result' = NoResult]_vars

C20_Witness ==
    /\ calls = 2 /\ pc = "done"
    /\ op = "submit_jar"
    /\ requests # <<>>
    /\ requests[1].endpoint = <<"http://", "localhost", ":", "8081">>

(* ------------------------- specification ------------------------------ *)

Next ==
    \/ Call_submit_job
    \/ Call_cancel_job_with_savepoint
    \/ Call_trigger_savepoint
    \/ Call_cancel_job
    \/ Call_submit_jar
    \/ Call_run_job
    \/ Call_list_jars
    \/ Call_delete_jar
    \/ Call_list_jobs
    \/ Call_job_info
    \/ Call_savepoint_trigger_info
    \/ Call__find_address
    \/ PassThroughRequest
    \/ GetAppsInfo
    \/ TriggerRequest
    \/ SavepointStatus
    \/ SavepointSleep
    \/ Upload
    \/ Run
    \/ CancelRequest
    \/ JobInfo
    \/ JobSleep

Spec == Init /\ [][Next]_vars

\* the steps inside a call: the interpreter runs a started call on
Step ==
    \/ PassThroughRequest
    \/ GetAppsInfo
    \/ TriggerRequest
    \/ SavepointStatus
    \/ SavepointSleep
    \/ Upload
    \/ Run
    \/ CancelRequest
    \/ JobInfo
    \/ JobSleep

\* every request is answered and every sleep ends
FairSpec == Spec /\ WF_vars(Step)

====
